---- MODULE Spec2Model ----
(***************************************************************************)
(* GLSPSocketServerContribution: launching the GLSP server process, the    *)
(* readiness Deferred resolved from the process output, the socket         *)
(* connection to the server and the contribution's dispose collection.     *)
(*                                                                         *)
(* Strings are modelled as sequences of string pieces, so that startsWith  *)
(* and endsWith are computed on the pieces.                                *)
(***************************************************************************)
EXTENDS Integers, Sequences, FiniteSets, TLC

\* ------------------------------------------------------------------ bounds
\* launch() and connect() calls in a run
MaxCalls == 2
\* dispose() calls in a run
MaxDispose == 2
\* payloads per direction of one forwarder
MaxMessages == 2
\* command line arguments of a getPort call
MaxArgv == 2

\* --------------------------------------------------------------- constants
START_UP_COMPLETE_MSG == <<"[GLSP-Server]:", "Startup completed">>

\* the not-a-number port of the default options, kept apart from every port
NaN == -1
NoExecutable == <<>>
NoHost == ""
NoLine == <<>>

ExecutableSet ==
    { NoExecutable, <<"server", ".jar">>, <<"server", ".js">>, <<"server", ".sh">> }
PortSet == { NaN, 5007 }
HostSet == { NoHost, "localhost" }
AdditionalArgsSet == { <<>> }

\* lines the server process may print
LineSet ==
    { START_UP_COMPLETE_MSG,
      START_UP_COMPLETE_MSG \o <<" in 5 ms">>,
      <<"INFO ">> \o START_UP_COMPLETE_MSG,
      <<"[GLSP-Server]:">>,
      <<"Listening">> }

ChannelKinds == { "ForwardingChannel", "Channel" }

\* ----------------------------------------------------------------- strings
StartsWith(s, prefix) ==
    /\ Len(s) >= Len(prefix)
    /\ SubSeq(s, 1, Len(prefix)) = prefix

EndsWith(s, suffix) ==
    /\ Len(s) >= Len(suffix)
    /\ SubSeq(s, Len(s) - Len(suffix) + 1, Len(s)) = suffix

IsNaN(port) == port = NaN

\* ------------------------------------------------------------------- state
VARIABLES
    options,        \* the contribution options (set once by initialize)
    readiness,      \* onReadyDeferred: [state, reason]
    launches,       \* one record per launch() call, with the process it spawned
    sockets,        \* one record per socket created by connectToSocketServer
    toDispose,      \* the contribution's DisposableCollection
    connectErrors,  \* exceptions thrown by connect() to its caller
    disposeCalls,   \* calls of dispose()
    lastLine,       \* the last output line handed to processLogInfo (NoLine: none yet)
    portCall        \* the last getPort call: its inputs and its result

vars == << options, readiness, launches, sockets, toDispose, connectErrors,
           disposeCalls, lastLine, portCall >>

\* launch() and connect() calls made so far
Calls == Len(launches) + Len(sockets) + connectErrors

\* ----------------------------------------------------------------- getPort
\* strings of getPort are sequences of characters
Digits == << "0", "1", "2", "3", "4", "5", "6", "7", "8", "9" >>
IsDigit(c) == \E i \in DOMAIN Digits : Digits[i] = c
DigitValue(c) == (CHOOSE i \in DOMAIN Digits : Digits[i] = c) - 1
IsWhiteSpace(c) == c \in { " ", "\t" }

\* String.replace(pattern, replacement): the first occurrence only
ReplaceFirst(s, pattern, replacement) ==
    LET hits == { i \in 1..(Len(s) - Len(pattern) + 1) :
                     SubSeq(s, i, i + Len(pattern) - 1) = pattern }
    IN IF hits = {} THEN s
       ELSE LET i == CHOOSE h \in hits : \A k \in hits : h <= k
            IN SubSeq(s, 1, i - 1) \o replacement \o SubSeq(s, i + Len(pattern), Len(s))

\* String.substring(start), start counted from 0
Substring(s, start) == SubSeq(s, start + 1, Len(s))

RECURSIVE SkipWhiteSpace(_)
SkipWhiteSpace(s) ==
    IF s # <<>> /\ IsWhiteSpace(Head(s)) THEN SkipWhiteSpace(Tail(s)) ELSE s

\* the value of the leading digits of s, after the digits read so far
RECURSIVE DigitsValue(_, _)
DigitsValue(s, acc) ==
    IF s # <<>> /\ IsDigit(Head(s))
    THEN DigitsValue(Tail(s), 10 * acc + DigitValue(Head(s)))
    ELSE acc

\* Number.parseInt(s, 10): leading white space, a sign, then digits up to
\* the first other character; not-a-number when there is no digit
ParseInt(s) ==
    LET t == SkipWhiteSpace(s)
        negative == t # <<>> /\ Head(t) = "-"
        u == IF t # <<>> /\ Head(t) \in { "-", "+" } THEN Tail(t) ELSE t
    IN IF u = <<>> \/ ~IsDigit(Head(u)) THEN NaN
       ELSE IF negative THEN 0 - DigitsValue(u, 0)
       ELSE DigitsValue(u, 0)

\* the arguments that start with the key, in their order
RECURSIVE FilterStartsWith(_, _)
FilterStartsWith(argv, key) ==
    IF argv = <<>> THEN <<>>
    ELSE IF StartsWith(Head(argv), key)
    THEN <<Head(argv)>> \o FilterStartsWith(Tail(argv), key)
    ELSE FilterStartsWith(Tail(argv), key)

\* `--${argsKey.replace('--', '').replace('=', '')}=`
NormalizedKey(argsKey) ==
    <<"-", "-">> \o ReplaceFirst(ReplaceFirst(argsKey, <<"-", "-">>, <<>>), <<"=">>, <<>>)
        \o <<"=">>

\* defaultPort ? defaultPort : NaN, with <<>> for an omitted defaultPort
DefaultOrNaN(defaultPort) ==
    IF defaultPort # <<>> /\ defaultPort[1] # 0 /\ ~IsNaN(defaultPort[1])
    THEN defaultPort[1]
    ELSE NaN

\* getPort(argsKey, defaultPort) with process.argv = argv
GetPort(argsKey, argv, defaultPort) ==
    LET key == NormalizedKey(argsKey)
        args == FilterStartsWith(argv, key)
    IN IF Len(args) > 0 THEN ParseInt(Substring(args[1], Len(key)))
       ELSE DefaultOrNaN(defaultPort)

\* no call of getPort yet
NoPortCall ==
    [argsKey |-> <<>>, argv |-> <<>>, defaultPort |-> <<>>, called |-> FALSE,
     result |-> NaN]

\* the call of getPort on the inputs held in portCall
GetPortCall ==
    /\ ~portCall.called
    /\ portCall' = [portCall EXCEPT
                        !.called = TRUE,
                        !.result = GetPort(portCall.argsKey, portCall.argv,
                                           portCall.defaultPort)]
    /\ UNCHANGED << options, readiness, launches, sockets, toDispose,
                    connectErrors, disposeCalls, lastLine >>

\* ---------------------------------------------------------------- Deferred
Waiting == [state |-> "Waiting", reason |-> "none"]

Resolve_Overwrites(d) == [state |-> "Ready", reason |-> "none"]

\* onReadyDeferred.resolve(): settles a Deferred that is not settled yet
Resolve(d) ==
    IF d.state = "Waiting" THEN [state |-> "Ready", reason |-> "none"] ELSE d

Reject_Overwrites(d, error) == [state |-> "Failed", reason |-> error]

\* onReadyDeferred.reject(error): settles a Deferred that is not settled yet
Reject(d, error) ==
    IF d.state = "Waiting" THEN [state |-> "Failed", reason |-> error] ELSE d

\* ------------------------------------------------------------------ launch
ConfigErrors == { "NoExecutable", "InvalidPath", "PortNaN", "InvalidExtension" }
ValidationErrors == { "NoExecutable", "InvalidPath", "PortNaN" }

\* the checks of launch() before any process is started; exists is the
\* answer of fs.existsSync for the executable path
ValidationError(o, exists) ==
    IF o.executable = NoExecutable THEN "NoExecutable"
    ELSE IF ~exists THEN "InvalidPath"
    ELSE IF IsNaN(o.port) THEN "PortNaN"
    ELSE "none"

GetJavaProcessJvmArgs == <<"--add-opens", "java.base/java.util=ALL-UNNAMED">>

PortString(port) == IF IsNaN(port) THEN "NaN" ELSE ToString(port)

HostArgs_Always(o) == <<"--host", o.host>>

\* the '--host' arguments, when a host is configured
HostArgs(o) == IF o.host # NoHost THEN <<"--host", o.host>> ELSE <<>>

LaunchJavaProcessArgs(o) ==
    GetJavaProcessJvmArgs
        \o <<"-jar", o.executable, "--port", PortString(o.port)>>
        \o HostArgs(o)
        \o o.additionalArgs

LaunchNodeProcessArgs(o) ==
    <<o.executable, "--port", PortString(o.port)>>
        \o HostArgs(o)
        \o o.additionalArgs

Runtime_DefaultsToNode(o) ==
    IF EndsWith(o.executable, <<".jar">>) THEN "java" ELSE "node"

\* which runtime launch() starts for the executable: "java", "node" or none
Runtime(o) ==
    IF EndsWith(o.executable, <<".jar">>) THEN "java"
    ELSE IF EndsWith(o.executable, <<".js">>) THEN "node"
    ELSE "none"

NoProcess == [command |-> "none", args |-> <<>>, state |-> "none", kills |-> 0]

KillDisposable(l) == [kind |-> "kill", id |-> l]

\* spawnProcessAsync: the process is created at once and owned by the
\* contribution; the returned promise settles later (SpawnResolved/SpawnFailed)
SpawnProcessAsync(command, args) ==
    [command |-> command, args |-> args, state |-> "spawning", kills |-> 0]

Launch_NoValidation(exists) ==
    /\ Calls < MaxCalls
    /\ LET rt == Runtime(options)
           l == Len(launches) + 1
       IN IF rt = "none"
          THEN /\ launches' = Append(launches,
                      [pc |-> "returned", error |-> "InvalidExtension",
                       spawnCalls |-> 0, proc |-> NoProcess])
               /\ readiness' = Reject(readiness, "InvalidExtension")
               /\ UNCHANGED toDispose
          ELSE /\ launches' = Append(launches,
                      [pc |-> "awaitSpawn", error |-> "none", spawnCalls |-> 1,
                       proc |-> SpawnProcessAsync(rt,
                                   IF rt = "java" THEN LaunchJavaProcessArgs(options)
                                   ELSE LaunchNodeProcessArgs(options))])
               /\ toDispose' = Append(toDispose, KillDisposable(l))
               /\ UNCHANGED readiness
    /\ UNCHANGED << options, portCall, sockets, connectErrors, disposeCalls,
                    lastLine >>

\* launch(), up to its await (or to its return when the try block throws)
Launch(exists) ==
    /\ Calls < MaxCalls
    /\ LET err == ValidationError(options, exists)
           rt == Runtime(options)
           l == Len(launches) + 1
       IN IF err # "none"
          THEN /\ launches' = Append(launches,
                      [pc |-> "returned", error |-> err,
                       spawnCalls |-> 0, proc |-> NoProcess])
               /\ readiness' = Reject(readiness, err)
               /\ UNCHANGED toDispose
          ELSE IF rt = "none"
          THEN /\ launches' = Append(launches,
                      [pc |-> "returned", error |-> "InvalidExtension",
                       spawnCalls |-> 0, proc |-> NoProcess])
               /\ readiness' = Reject(readiness, "InvalidExtension")
               /\ UNCHANGED toDispose
          ELSE /\ launches' = Append(launches,
                      [pc |-> "awaitSpawn", error |-> "none", spawnCalls |-> 1,
                       proc |-> SpawnProcessAsync(rt,
                                   IF rt = "java" THEN LaunchJavaProcessArgs(options)
                                   ELSE LaunchNodeProcessArgs(options))])
               /\ toDispose' = Append(toDispose, KillDisposable(l))
               /\ UNCHANGED readiness
    /\ UNCHANGED << options, portCall, sockets, connectErrors, disposeCalls,
                    lastLine >>

\* the spawn promise resolves: launch() continues after its await and returns
\* the readiness promise
SpawnResolved(l) ==
    /\ launches[l].pc = "awaitSpawn"
    /\ launches[l].proc.state \in { "spawning", "killed" }
    /\ launches' = [launches EXCEPT
            ![l].pc = "returned",
            ![l].proc.state = IF @ = "spawning" THEN "running" ELSE @]
    /\ UNCHANGED << options, portCall, readiness, sockets, toDispose, connectErrors,
                    disposeCalls, lastLine >>

\* the spawn promise rejects (the process could not be started): the catch
\* block of launch() rejects the readiness Deferred
SpawnFailed(l) ==
    /\ launches[l].pc = "awaitSpawn"
    /\ launches[l].proc.state = "spawning"
    /\ launches' = [launches EXCEPT
            ![l].pc = "returned",
            ![l].error = "SpawnError",
            ![l].proc.state = "errored"]
    /\ readiness' = Reject(readiness, "SpawnError")
    /\ UNCHANGED << options, portCall, sockets, toDispose, connectErrors, disposeCalls,
                    lastLine >>

LaunchPromise_ResolvesOnReturn(launch, d) ==
    IF launch.pc # "returned" THEN "pending" ELSE "fulfilled"

\* the promise launch() hands to its caller: launch() is async and returns
\* onReadyDeferred.promise, so once it has returned its promise follows the
\* Deferred
LaunchPromise(launch, d) ==
    IF launch.pc # "returned" THEN "pending"
    ELSE IF d.state = "Ready" THEN "fulfilled"
    ELSE IF d.state = "Failed" THEN "rejected"
    ELSE "pending"

\* ------------------------------------------------------------ process events
\* pattern occurs somewhere in line
Contains(line, pattern) ==
    \E i \in 1..Len(line) : StartsWith(SubSeq(line, i, Len(line)), pattern)

ProcessLogInfo_Contains(d, line) ==
    IF Contains(line, START_UP_COMPLETE_MSG) THEN Resolve(d) ELSE d

ProcessLogInfo_ExactMatch(d, line) ==
    IF line = START_UP_COMPLETE_MSG THEN Resolve(d) ELSE d

\* processLogInfo(line)
ProcessLogInfo(d, line) ==
    IF StartsWith(line, START_UP_COMPLETE_MSG) THEN Resolve(d) ELSE d

\* the running process of launch l prints a line on its standard output
ProcessOutput(l, line) ==
    /\ launches[l].proc.state = "running"
    /\ readiness' = ProcessLogInfo(readiness, line)
    /\ lastLine' = line
    /\ UNCHANGED << options, portCall, launches, sockets, toDispose, connectErrors,
                    disposeCalls >>

\* the running process ends by itself (exit), or reports an error after it
\* was started: nothing of the contribution listens to either
ProcessTerminated(l, how) ==
    /\ launches[l].proc.state = "running"
    /\ launches' = [launches EXCEPT ![l].proc.state = how]
    /\ UNCHANGED << options, portCall, readiness, sockets, toDispose, connectErrors,
                    disposeCalls, lastLine >>

\* ------------------------------------------------------------------ connect
ForwarderDisposable(s) == [kind |-> "forwarder", id |-> s]
DestroyDisposable(s) == [kind |-> "destroy", id |-> s]

\* new net.Socket(): nothing bound, nothing registered, not connecting yet
NewSocket(kind) ==
    [channel |-> kind, log |-> <<>>, state |-> "created",
     forwarder |-> "none", errorHandler |-> FALSE,
     error |-> "none", channelErrors |-> 0, channelClosed |-> FALSE,
     disposeDestroys |-> 0, releases |-> 0,
     received |-> <<>>, delivered |-> <<>>, submitted |-> <<>>, written |-> <<>>]

\* forward(): a SocketConnectionForwarder is bound to channel and socket and
\* pushed to the dispose collection
Forward(td, s) == Append(td, ForwarderDisposable(s))

RegisterErrorHandler_Never(kind) == FALSE

\* clientChannel instanceof ForwardingChannel
RegisterErrorHandler(kind) == kind = "ForwardingChannel"

PushSocketDestroy_Missing(td, s) == td

PushSocketDestroy_Twice(td, s) ==
    Append(Append(td, DestroyDisposable(s)), DestroyDisposable(s))

\* this.toDispose.push(Disposable.create(() => socket.destroy()))
PushSocketDestroy(td, s) == Append(td, DestroyDisposable(s))

\* connectToSocketServer with socket.connect and the push of the destroy
\* disposable ahead of forward and of the error handler
BindAndConnect_ConnectFirst(kind) ==
    LET s == Len(sockets) + 1
        handler == RegisterErrorHandler(kind)
    IN /\ sockets' = Append(sockets,
              [NewSocket(kind) EXCEPT
                  !.forwarder = "bound",
                  !.errorHandler = handler,
                  !.state = "connecting",
                  !.log = <<"connect", "pushDestroy", "forward">>
                          \o (IF handler THEN <<"onError">> ELSE <<>>)])
       /\ toDispose' = Forward(PushSocketDestroy(toDispose, s), s)

\* connectToSocketServer without its this.forward(clientChannel, connection)
BindAndConnect_NoForward(kind) ==
    LET s == Len(sockets) + 1
        handler == RegisterErrorHandler(kind)
    IN /\ sockets' = Append(sockets,
              [NewSocket(kind) EXCEPT
                  !.errorHandler = handler,
                  !.state = "connecting",
                  !.log = (IF handler THEN <<"onError">> ELSE <<>>)
                          \o <<"connect", "pushDestroy">>])
       /\ toDispose' = PushSocketDestroy(toDispose, s)

\* the statements of connectToSocketServer after its port check
BindAndConnect(kind) ==
    LET s == Len(sockets) + 1
        handler == RegisterErrorHandler(kind)
    IN /\ sockets' = Append(sockets,
              [NewSocket(kind) EXCEPT
                  !.forwarder = "bound",
                  !.errorHandler = handler,
                  !.state = "connecting",
                  !.log = <<"forward">>
                          \o (IF handler THEN <<"onError">> ELSE <<>>)
                          \o <<"connect", "pushDestroy">>])
       /\ toDispose' = PushSocketDestroy(Forward(toDispose, s), s)

ConnectToSocketServer_LatePortCheck(kind) ==
    /\ Calls < MaxCalls
    /\ BindAndConnect(kind)
    /\ connectErrors' = IF IsNaN(options.port) THEN connectErrors + 1
                        ELSE connectErrors
    /\ UNCHANGED << options, portCall, readiness, launches, disposeCalls,
                    lastLine >>

\* connect(clientChannel), which is connectToSocketServer(clientChannel)
ConnectToSocketServer(kind) ==
    /\ Calls < MaxCalls
    /\ IF IsNaN(options.port)
       THEN /\ connectErrors' = connectErrors + 1
            /\ UNCHANGED << sockets, toDispose >>
       ELSE /\ BindAndConnect(kind)
            /\ UNCHANGED connectErrors
    /\ UNCHANGED << options, portCall, readiness, launches, disposeCalls,
                    lastLine >>

\* ------------------------------------------------------------ socket events
\* socket.destroy()
Destroy(sock) ==
    [sock EXCEPT
        !.state = IF @ \in { "destroyed", "closed" } THEN @ ELSE "destroyed"]

\* SocketConnectionForwarder.dispose(): releases its listeners, once
ForwarderDispose(sock) ==
    [sock EXCEPT
        !.forwarder = IF @ = "bound" THEN "disposed" ELSE @,
        !.releases = IF sock.forwarder = "bound" THEN @ + 1 ELSE @]

\* the connection is established
SocketConnected(s) ==
    /\ sockets[s].state = "connecting"
    /\ sockets' = [sockets EXCEPT ![s].state = "connected"]
    /\ UNCHANGED << options, portCall, readiness, launches, toDispose, connectErrors,
                    disposeCalls, lastLine >>

\* the socket's 'error' event, at connect time or later: the handler of
\* connectToSocketServer fires the channel's error event
SocketError(s) ==
    /\ sockets[s].state \in { "connecting", "connected" }
    /\ sockets' = [sockets EXCEPT
            ![s].state = "errored",
            ![s].error = IF sockets[s].state = "connecting" THEN "connect" ELSE "later",
            ![s].channelErrors = IF sockets[s].errorHandler THEN @ + 1 ELSE @]
    /\ UNCHANGED << options, portCall, readiness, launches, toDispose, connectErrors,
                    disposeCalls, lastLine >>

\* the socket's 'close' event (after an error, a destroy, or the peer's end):
\* a bound forwarder closes the channel side and releases itself
SocketClose(s) ==
    /\ sockets[s].state \in { "connected", "errored", "destroyed" }
    /\ sockets' = [sockets EXCEPT
            ![s] = IF @.forwarder = "bound"
                   THEN [ForwarderDispose(@) EXCEPT
                            !.state = "closed", !.channelClosed = TRUE]
                   ELSE [@ EXCEPT !.state = "closed"]]
    /\ UNCHANGED << options, portCall, readiness, launches, toDispose, connectErrors,
                    disposeCalls, lastLine >>

\* the client channel closes: a bound forwarder destroys the socket side and
\* releases itself
ChannelClose(s) ==
    /\ ~sockets[s].channelClosed
    /\ sockets' = [sockets EXCEPT
            ![s] = IF @.forwarder = "bound"
                   THEN [Destroy(ForwarderDispose(@)) EXCEPT !.channelClosed = TRUE]
                   ELSE [@ EXCEPT !.channelClosed = TRUE]]
    /\ UNCHANGED << options, portCall, readiness, launches, toDispose, connectErrors,
                    disposeCalls, lastLine >>

\* ------------------------------------------------------------- forwarding
\* a payload arrives on the connected socket
SocketData(s, payload) ==
    /\ sockets[s].state = "connected"
    /\ Len(sockets[s].received) < MaxMessages
    /\ sockets' = [sockets EXCEPT ![s].received = Append(@, payload)]
    /\ UNCHANGED << options, portCall, readiness, launches, toDispose, connectErrors,
                    disposeCalls, lastLine >>

\* the local side submits a payload to the open channel
ChannelMessage(s, payload) ==
    /\ ~sockets[s].channelClosed
    /\ Len(sockets[s].submitted) < MaxMessages
    /\ sockets' = [sockets EXCEPT ![s].submitted = Append(@, payload)]
    /\ UNCHANGED << options, portCall, readiness, launches, toDispose, connectErrors,
                    disposeCalls, lastLine >>

NextPayload_Newest(arrived, forwarded) == arrived[Len(arrived)]

\* the payload the forwarder relays next: the oldest one not relayed yet
NextPayload(arrived, forwarded) == arrived[Len(forwarded) + 1]

\* the bound forwarder hands a received payload to the channel
DeliverToChannel(s) ==
    /\ sockets[s].forwarder = "bound"
    /\ ~sockets[s].channelClosed
    /\ Len(sockets[s].delivered) < Len(sockets[s].received)
    /\ sockets' = [sockets EXCEPT
            ![s].delivered = Append(@, NextPayload(sockets[s].received, @))]
    /\ UNCHANGED << options, portCall, readiness, launches, toDispose, connectErrors,
                    disposeCalls, lastLine >>

\* the bound forwarder writes a submitted payload to the socket
WriteToSocket(s) ==
    /\ sockets[s].forwarder = "bound"
    /\ sockets[s].state = "connected"
    /\ Len(sockets[s].written) < Len(sockets[s].submitted)
    /\ sockets' = [sockets EXCEPT
            ![s].written = Append(@, NextPayload(sockets[s].submitted, @))]
    /\ UNCHANGED << options, portCall, readiness, launches, toDispose, connectErrors,
                    disposeCalls, lastLine >>

\* ----------------------------------------------------------------- dispose
\* rawProcess.kill()
Kill(launch) ==
    [launch EXCEPT
        !.proc.kills = @ + 1,
        !.proc.state = IF @ \in { "spawning", "running" } THEN "killed" ELSE @]

\* one Disposable of the collection, applied to the launches and sockets
DisposeItem(item, st) ==
    IF item.kind = "kill"
    THEN [st EXCEPT !.launches[item.id] = Kill(@)]
    ELSE IF item.kind = "forwarder"
    THEN [st EXCEPT !.sockets[item.id] = ForwarderDispose(@)]
    ELSE [st EXCEPT !.sockets[item.id] =
             [Destroy(@) EXCEPT !.disposeDestroys = @ + 1]]

\* DisposableCollection.dispose(): pops and disposes every element
RECURSIVE DisposeAll(_, _)
DisposeAll(items, st) ==
    IF items = <<>> THEN st
    ELSE DisposeAll(SubSeq(items, 1, Len(items) - 1),
                    DisposeItem(items[Len(items)], st))

\* dispose() of the contribution
Dispose ==
    /\ disposeCalls < MaxDispose
    /\ disposeCalls' = disposeCalls + 1
    /\ LET st == DisposeAll(toDispose, [launches |-> launches, sockets |-> sockets])
       IN /\ launches' = st.launches
          /\ sockets' = st.sockets
    /\ toDispose' = <<>>
    /\ UNCHANGED << options, portCall, readiness, connectErrors, lastLine >>

\* ----------------------------------------------------------- specification
OptionsSet ==
    [executable : ExecutableSet, port : PortSet, host : { NoHost },
     additionalArgs : AdditionalArgsSet]

Init ==
    /\ options \in OptionsSet
    /\ readiness = Waiting
    /\ launches = <<>>
    /\ sockets = <<>>
    /\ toDispose = <<>>
    /\ connectErrors = 0
    /\ disposeCalls = 0
    /\ lastLine = NoLine
    /\ portCall = NoPortCall

Next ==
    \/ \E exists \in BOOLEAN : Launch(exists)
    \/ \E l \in DOMAIN launches : SpawnResolved(l)
    \/ \E l \in DOMAIN launches : SpawnFailed(l)
    \/ \E l \in DOMAIN launches : \E line \in LineSet : ProcessOutput(l, line)
    \/ \E l \in DOMAIN launches : \E how \in { "exited", "errored" } :
           ProcessTerminated(l, how)
    \/ \E kind \in ChannelKinds : ConnectToSocketServer(kind)
    \/ \E s \in DOMAIN sockets : SocketConnected(s)
    \/ \E s \in DOMAIN sockets : SocketError(s)
    \/ \E s \in DOMAIN sockets : SocketClose(s)
    \/ \E s \in DOMAIN sockets : ChannelClose(s)
    \/ Dispose

Spec == Init /\ [][Next]_vars

\* ------------------------------------------------- launch arguments alone
\* options with and without a host and additional arguments
ArgsOptionsSet ==
    [executable : ExecutableSet, port : PortSet, host : HostSet,
     additionalArgs : { <<>>, <<"--verbose">>, <<"--log", "debug">> }]

InitArgs ==
    /\ options \in ArgsOptionsSet
    /\ readiness = Waiting
    /\ launches = <<>>
    /\ sockets = <<>>
    /\ toDispose = <<>>
    /\ connectErrors = 0
    /\ disposeCalls = 0
    /\ lastLine = NoLine
    /\ portCall = NoPortCall

NextArgs ==
    \/ \E exists \in BOOLEAN : Launch(exists)
    \/ \E l \in DOMAIN launches : SpawnResolved(l)
    \/ \E l \in DOMAIN launches : SpawnFailed(l)

SpecArgs == InitArgs /\ [][NextArgs]_vars

\* ---------------------------------------------------------- one forwarder
PayloadSet == { "a", "b" }

\* a contribution whose options carry a port
InitForward ==
    /\ options = [executable |-> NoExecutable, port |-> 5007, host |-> NoHost,
                  additionalArgs |-> <<>>]
    /\ readiness = Waiting
    /\ launches = <<>>
    /\ sockets = <<>>
    /\ toDispose = <<>>
    /\ connectErrors = 0
    /\ disposeCalls = 0
    /\ lastLine = NoLine
    /\ portCall = NoPortCall

\* one connect(clientChannel) call, then the traffic and the closes of its
\* forwarder
NextForward ==
    \/ \E kind \in ChannelKinds : sockets = <<>> /\ ConnectToSocketServer(kind)
    \/ \E s \in DOMAIN sockets :
          \/ SocketConnected(s)
          \/ SocketClose(s)
          \/ ChannelClose(s)
          \/ DeliverToChannel(s)
          \/ WriteToSocket(s)
          \/ \E payload \in PayloadSet :
                \/ SocketData(s, payload)
                \/ ChannelMessage(s, payload)

SpecForward == InitForward /\ [][NextForward]_vars

\* ------------------------------------------------------------ getPort alone
PortKey == << "p", "o", "r", "t" >>
PortArg(value) == << "-", "-" >> \o PortKey \o << "=" >> \o value

ArgsKeySet ==
    { PortKey, << "-", "-" >> \o PortKey, PortKey \o << "=" >> }

\* command line arguments getPort may find
TokenSet ==
    { << "-", "-", "f", "o", "o", "=", "1" >>,
      PortArg(<< "8", "0", "8", "1" >>),
      PortArg(<< "8", "0" >>),
      PortArg(<< "1", "2", "a", "b" >>),
      PortArg(<< "x" >>),
      PortArg(<<>>),
      << "-", "-" >> \o PortKey \o << "x", "=", "5" >> }

\* process.argv: up to MaxArgv arguments
ArgvSet ==
    UNION { [1..n -> TokenSet] : n \in 0..MaxArgv }

DefaultPortSet == { <<>>, << 0 >>, << 5007 >> }

\* the inputs of the call are drawn here, the contribution is left unused
InitPort ==
    /\ options = [executable |-> NoExecutable, port |-> NaN, host |-> NoHost,
                  additionalArgs |-> <<>>]
    /\ readiness = Waiting
    /\ launches = <<>>
    /\ sockets = <<>>
    /\ toDispose = <<>>
    /\ connectErrors = 0
    /\ disposeCalls = 0
    /\ lastLine = NoLine
    /\ portCall \in [argsKey : ArgsKeySet, argv : ArgvSet, defaultPort : DefaultPortSet,
                      called : { FALSE }, result : { NaN }]

NextPort == GetPortCall

SpecPort == InitPort /\ [][NextPort]_vars

\* ------------------------------------------------------------------ claims
Settled == readiness.state # "Waiting"

ReadinessStates ==
    { Waiting, [state |-> "Ready", reason |-> "none"] }
        \cup { [state |-> "Failed", reason |-> r] : r \in ConfigErrors \cup { "SpawnError" } }

LiveProcess(launch) == launch.proc.state \in { "spawning", "running" }
LiveSocket(sock) == sock.state \notin { "destroyed", "closed" }

Registered(item) == \E i \in DOMAIN toDispose : toDispose[i] = item

\* C1: while the readiness Deferred is Waiting, an output line that starts
\* with the sentinel makes it Ready, and once Ready it stays Ready whatever
\* lines (or other events) follow.
C1_SentinelMakesReady ==
    [][ /\ \A l \in DOMAIN launches : \A line \in LineSet :
               ( /\ readiness.state = "Waiting"
                 /\ StartsWith(line, START_UP_COMPLETE_MSG)
                 /\ ProcessOutput(l, line) )
               => readiness'.state = "Ready"
        /\ readiness.state = "Ready" => readiness'.state = "Ready"
      ]_vars

\* Ready, and a line that is not the sentinel was handed over after that
C1_Witness ==
    /\ readiness.state = "Ready"
    /\ lastLine = <<"Listening">>

\* C2: a process that exits or errors while the readiness Deferred is still
\* Waiting makes it Failed.
C2_TerminationFailsReadiness ==
    [][ \A l \in DOMAIN launches : \A how \in { "exited", "errored" } :
            ( readiness.state = "Waiting" /\ ProcessTerminated(l, how) )
            => readiness'.state = "Failed"
      ]_vars

\* C3: the readiness Deferred is always Waiting, Ready or Failed(reason), and
\* once Ready or Failed it never changes again, state and reason.
C3_SettledOnce ==
    /\ [](readiness \in ReadinessStates)
    /\ [][ Settled => readiness' = readiness ]_vars

\* Ready, although a launch() has rejected with its error since
C3_Witness ==
    /\ readiness.state = "Ready"
    /\ \E l \in DOMAIN launches : launches[l].error # "none"

C5_EveryFailureFailsReadiness ==
    ( \/ connectErrors > 0
      \/ \E l \in DOMAIN launches : launches[l].error # "none" )
    => readiness.state = "Failed"

\* C6: socket.connect is issued only while the readiness Deferred is Ready.
C6_ConnectOnlyWhenReady ==
    [][ Len(sockets') > Len(sockets) => readiness.state = "Ready" ]_vars

C8_DisposeOnce ==
    /\ \A l \in DOMAIN launches :
           launches[l].spawnCalls > 0
           => launches[l].proc.kills = IF Registered(KillDisposable(l)) THEN 0 ELSE 1
    /\ \A s \in DOMAIN sockets :
           sockets[s].disposeDestroys = IF Registered(DestroyDisposable(s)) THEN 0 ELSE 1

\* dispose was called twice on a contribution with a process and a socket
C8_Witness ==
    /\ disposeCalls >= 2
    /\ \E l \in DOMAIN launches : launches[l].proc.kills = 1
    /\ \E s \in DOMAIN sockets : sockets[s].disposeDestroys = 1

\* C9: right after any dispose call no process of the contribution is still
\* running and no socket it opened is still open.
C9_DisposeLeavesNothingLive ==
    [][ disposeCalls' = disposeCalls + 1
        => /\ \A l \in DOMAIN launches' : ~LiveProcess(launches'[l])
           /\ \A s \in DOMAIN sockets' : ~LiveSocket(sockets'[s])
      ]_vars

\* disposed while launch() was still awaiting the spawn, with a socket open
C9_Witness ==
    /\ \E l \in DOMAIN launches :
           launches[l].pc = "awaitSpawn" /\ launches[l].proc.state = "killed"
    /\ \E s \in DOMAIN sockets : sockets[s].disposeDestroys = 1

\* C10: with a not-a-number port connect creates no socket, binds no
\* forwarder, registers nothing for disposal and issues no socket.connect.
C10_NaNPortConnectsNothing ==
    IsNaN(options.port)
    => /\ sockets = <<>>
       /\ \A i \in DOMAIN toDispose : toDispose[i].kind \notin { "forwarder", "destroy" }

\* connect was called twice with a not-a-number port
C10_Witness ==
    /\ IsNaN(options.port)
    /\ connectErrors = 2

\* a step in which some process prints a line that starts with the sentinel
SentinelStep ==
    \E l \in DOMAIN launches : \E line \in LineSet :
        StartsWith(line, START_UP_COMPLETE_MSG) /\ ProcessOutput(l, line)

\* a step in which a launch() rejects: its checks fail, or its spawn fails
RejectStep ==
    \/ \E exists \in BOOLEAN :
           Launch(exists) /\ launches'[Len(launches')].error # "none"
    \/ \E l \in DOMAIN launches : SpawnFailed(l)

C12_OneProcessByExtension ==
    \A l \in DOMAIN launches :
        launches[l].error \notin ValidationErrors
        => IF EndsWith(options.executable, <<".jar">>)
           THEN launches[l].spawnCalls = 1 /\ launches[l].proc.command = "java"
           ELSE IF EndsWith(options.executable, <<".js">>)
           THEN launches[l].spawnCalls = 1 /\ launches[l].proc.command = "node"
           ELSE /\ launches[l].spawnCalls = 0
                /\ launches[l].proc = NoProcess
                /\ readiness.state = "Failed"
                /\ readiness.reason \in ConfigErrors

\* a '.sh' executable that exists: nothing spawned, the Deferred Failed
C12_Witness ==
    \E l \in DOMAIN launches :
        /\ launches[l].error = "InvalidExtension"
        /\ readiness = [state |-> "Failed", reason |-> "InvalidExtension"]

\* C13: the arguments of a spawned process are, for a '.jar' executable, the
\* JVM flags, '-jar', the path, '--port', the port; for a script the path,
\* '--port', the port; then '--host', host exactly when a host is
\* configured; then the additional arguments as given.
C13_ArgumentVector ==
    \A l \in DOMAIN launches :
        launches[l].spawnCalls = 1
        => LET args == launches[l].proc.args
               head == IF launches[l].proc.command = "java"
                       THEN << "--add-opens", "java.base/java.util=ALL-UNNAMED",
                               "-jar", options.executable,
                               "--port", ToString(options.port) >>
                       ELSE << options.executable,
                               "--port", ToString(options.port) >>
               host == IF options.host = NoHost THEN <<>>
                       ELSE << "--host", options.host >>
           IN /\ args = head \o host \o options.additionalArgs
              /\ (\E i \in DOMAIN args : args[i] = "--host") <=> options.host # NoHost

\* a java process spawned with a host and two additional arguments
C13_Witness ==
    \E l \in DOMAIN launches :
        /\ launches[l].proc.command = "java"
        /\ options.host = "localhost"
        /\ Len(options.additionalArgs) = 2

\* C14: getPort returns the base-10 integer value of the first argument of
\* the form --<key>=<value>; without such an argument it returns the default
\* port whenever one was passed, for every integer and so for 0 as well;
\* without a default it returns not-a-number.
C14_Prefix == << "-", "-" >> \o PortKey \o << "=" >>
C14_Matching == { i \in DOMAIN portCall.argv : StartsWith(portCall.argv[i], C14_Prefix) }
C14_FirstValue ==
    LET first == CHOOSE i \in C14_Matching : \A k \in C14_Matching : i <= k
    IN SubSeq(portCall.argv[first], Len(C14_Prefix) + 1, Len(portCall.argv[first]))
C14_IsInteger(value) == value # <<>> /\ \A i \in DOMAIN value : IsDigit(value[i])
C14_PortResolution ==
    portCall.called =>
        IF C14_Matching # {}
        THEN C14_IsInteger(C14_FirstValue) => portCall.result = DigitsValue(C14_FirstValue, 0)
        ELSE IF portCall.defaultPort # <<>>
        THEN portCall.result = portCall.defaultPort[1]
        ELSE IsNaN(portCall.result)

\* C15: once the forwarder is bound to a socket and a channel, the close of
\* either side disposes the other side and releases the forwarder, and the
\* forwarder is released once whatever the order of the two closes.
C15_SocketCloses(s) == sockets[s].state # "closed" /\ sockets'[s].state = "closed"
C15_ChannelCloses(s) == ~sockets[s].channelClosed /\ sockets'[s].channelClosed
C15_CloseStep(s) ==
    /\ sockets[s].state # "created" => sockets[s].forwarder # "none"
    /\ sockets[s].releases = IF sockets[s].forwarder = "disposed" THEN 1 ELSE 0
    /\ sockets[s].forwarder = "bound" /\ C15_SocketCloses(s)
           => /\ sockets'[s].channelClosed
              /\ sockets'[s].forwarder = "disposed"
              /\ sockets'[s].releases = 1
    /\ sockets[s].forwarder = "bound" /\ C15_ChannelCloses(s)
           => /\ sockets'[s].state \in { "destroyed", "closed" }
              /\ sockets'[s].forwarder = "disposed"
              /\ sockets'[s].releases = 1
    /\ sockets[s].forwarder = "disposed"
           => /\ sockets'[s].forwarder = "disposed"
              /\ sockets'[s].releases = 1
C15_CloseDisposesOtherSide ==
    [][\A s \in DOMAIN sockets : C15_CloseStep(s)]_vars

\* both sides have closed without any dispose() call, the forwarder was
\* released once
C15_Witness ==
    /\ disposeCalls = 0
    /\ \E s \in DOMAIN sockets :
          /\ sockets[s].state = "closed"
          /\ sockets[s].channelClosed
          /\ sockets[s].forwarder = "disposed"
          /\ sockets[s].releases = 1

\* C16: per direction the forwarder relays payloads in order and unchanged:
\* what was delivered to the channel is a prefix of what was received on the
\* socket, and what was written to the socket is a prefix of what was
\* submitted to the channel.
C16_IsPrefix(p, q) == Len(p) <= Len(q) /\ p = SubSeq(q, 1, Len(p))
C16_ForwardingPreservesOrder ==
    \A s \in DOMAIN sockets :
        /\ C16_IsPrefix(sockets[s].delivered, sockets[s].received)
        /\ C16_IsPrefix(sockets[s].written, sockets[s].submitted)

\* two different payloads went through in each direction, in different orders
C16_Witness ==
    \E s \in DOMAIN sockets :
        /\ sockets[s].delivered = << "a", "b" >>
        /\ sockets[s].written = << "b", "a" >>

\* C17: the readiness Deferred belongs to the contribution, not to one
\* launch(): once it is settled, every launch() that has returned, the ones
\* issued afterwards included, reports the settled outcome, whatever its own
\* process does.
C17_SettledOutcome == IF readiness.state = "Ready" THEN "fulfilled" ELSE "rejected"
C17_LaunchReportsSettledOutcome ==
    [][ Settled =>
            \A l \in DOMAIN launches' :
                launches'[l].pc = "returned"
                    => LaunchPromise(launches'[l], readiness') = C17_SettledOutcome
      ]_vars

\* a launch() issued after a failed path check: its process runs and has
\* printed the sentinel, and it is rejected with the earlier error
C17_Witness ==
    /\ readiness = [state |-> "Failed", reason |-> "InvalidPath"]
    /\ StartsWith(lastLine, START_UP_COMPLETE_MSG)
    /\ \E l \in DOMAIN launches :
          /\ l > 1
          /\ launches[l].proc.state = "running"
          /\ LaunchPromise(launches[l], readiness) = "rejected"

\* C18: the readiness Deferred becomes Ready only in a step in which a
\* process prints a line that begins with the sentinel; a spawn, a line
\* without the sentinel, or a line with the sentinel after other characters
\* does not make it Ready.
C18_ReadyOnlyBySentinelLine ==
    /\ [](readiness.state = "Ready" => lastLine # NoLine)
    /\ [][ readiness.state # "Ready" /\ readiness'.state = "Ready"
               => /\ SentinelStep
                  /\ StartsWith(lastLine', START_UP_COMPLETE_MSG) ]_vars

\* a process has been spawned and has printed the sentinel after leading
\* characters, and the Deferred is still Waiting
C18_Witness ==
    /\ readiness.state = "Waiting"
    /\ lastLine # NoLine
    /\ ~StartsWith(lastLine, START_UP_COMPLETE_MSG)
    /\ Contains(lastLine, START_UP_COMPLETE_MSG)

\* C19: connectToSocketServer binds the forwarder, and for a
\* ForwardingChannel registers the socket's error handler, before it issues
\* socket.connect, so a socket that is past its creation has both; and the
\* destroy disposable of a socket comes after its forwarder in toDispose.
C19_Before(log, first, second) ==
    \A j \in DOMAIN log :
        log[j] = second => \E i \in 1..(j - 1) : log[i] = first
C19_Position(item) == CHOOSE i \in DOMAIN toDispose : toDispose[i] = item
C19_BoundBeforeConnect ==
    \A s \in DOMAIN sockets :
        /\ C19_Before(sockets[s].log, "forward", "connect")
        /\ sockets[s].channel = "ForwardingChannel"
               => C19_Before(sockets[s].log, "onError", "connect")
        /\ sockets[s].state # "created"
               => /\ sockets[s].forwarder # "none"
                  /\ sockets[s].channel = "ForwardingChannel" => sockets[s].errorHandler
        /\ Registered(DestroyDisposable(s))
               => /\ Registered(ForwarderDisposable(s))
                  /\ C19_Position(ForwarderDisposable(s)) < C19_Position(DestroyDisposable(s))

\* the connect of a ForwardingChannel's socket has failed: the error handler
\* was there to report it, and forwarder and destroy are registered in order
C19_Witness ==
    \E s \in DOMAIN sockets :
        /\ sockets[s].channel = "ForwardingChannel"
        /\ sockets[s].error = "connect"
        /\ sockets[s].channelErrors = 1
        /\ sockets[s].forwarder = "bound"
        /\ Registered(ForwarderDisposable(s))
        /\ Registered(DestroyDisposable(s))

====
